---- MODULE Spec2Model ----
(***************************************************************************)
(* The judgement engine of prpr (prpr/src/judge.rs): Judge::new,           *)
(* Judge::commit, Judge::accuracy, Judge::score, Judge::update (manual     *)
(* input path) and Judge::auto_play_update.                                *)
(*                                                                         *)
(* Units.  Times are integers counting 1/100 s, so the f32 limits 0.08,    *)
(* 0.18 and 0.22 are 8, 18 and 22 and the scan margin 0.01 is 1.  Lateral  *)
(* positions are integers counting 1/10 of a line-local unit, so the       *)
(* lenient radius 0.9 is 9.  All arithmetic is exact.                      *)
(***************************************************************************)
EXTENDS Integers, Sequences, FiniteSets, TLC

LIMIT_PERFECT == 8
LIMIT_GOOD == 18
LIMIT_BAD == 22
RECORD_MAX == 10
TOTAL == 1000000

\* res.note_width, in 1/10 units (1.0): x_diff_max = 1.9 * note_width is 19.
NoteWidth == 10

\* Judgement as usize: the index into counts (1-based here).
JudgementIndex(what) ==
    CASE what = "Perfect" -> 1
      [] what = "Good" -> 2
      [] what = "Bad" -> 3
      [] what = "Miss" -> 4

Abs(a) == IF a < 0 THEN -a ELSE a
Max(a, b) == IF a > b THEN a ELSE b
Min(a, b) == IF a < b THEN a ELSE b

(***************************************************************************)
(* Charts.  A chart is a sequence of lines, a line a sequence of notes.    *)
(* x is the note's lateral position (note.object.translation.0.now()).     *)
(***************************************************************************)
Note(kind, time, end_time, fake, x) ==
    [kind |-> kind, time |-> time, end_time |-> end_time, fake |-> fake, x |-> x]

Click(time, x) == Note("Click", time, time, FALSE, x)
Drag(time, x) == Note("Drag", time, time, FALSE, x)
Flick(time, x) == Note("Flick", time, time, FALSE, x)
Hold(time, end_time, x) == Note("Hold", time, end_time, FALSE, x)
Fake(n) == [n EXCEPT !.fake = TRUE]

ChartEmpty == << <<>> >>
ChartFake == << <<Fake(Click(30, 0))>> >>
ChartClick == << <<Click(30, 0)>> >>
ChartClicks == << <<Click(38, 0), Fake(Click(30, 0)), Click(30, 15)>> >>
ChartLines == << <<Click(30, 0)>>, <<Flick(30, 0), Click(30, 0)>> >>
ChartHold == << <<Drag(30, 40), Hold(30, 60, 0), Drag(38, 0)>> >>
ChartFlick == << <<Drag(30, 40), Flick(30, 0)>> >>

\* a longer chart, played by autoplay alone
ChartMix == << <<Click(8, 0), Hold(21, 52, 0), Fake(Flick(30, 0)), Drag(30, 0)>>,
              <<Hold(30, 38, 15), Flick(39, 0), Click(39, 15), Click(8, 15)>> >>

Charts == {ChartEmpty, ChartFake, ChartClick, ChartClicks, ChartLines, ChartHold, ChartFlick}

(***************************************************************************)
(* The input of one frame: in = [tm, events, keys].  tm is the map of the  *)
(* touches macroquad reports (get_touches), events the touch events and    *)
(* keys the key events replayed to the Handler, in arrival order.          *)
(***************************************************************************)
\* a Touch; ok is false when its line-local position is NaN or infinite
Touch(id, phase, x, ok) == [id |-> id, phase |-> phase, x |-> x, ok |-> ok]

In(tm, events, keys) == [tm |-> tm, events |-> events, keys |-> keys]
TouchEvent(id, phase, x) == [id |-> id, phase |-> phase, x |-> x]

NoTouch == [id \in {} |-> 0]
One(id, phase, x) == (id :> Touch(id, phase, x, TRUE))
Nowhere(id, phase) == (id :> Touch(id, phase, 0, FALSE))

Idle == {In(NoTouch, <<>>, <<>>)}

\* a touch present in the frame without an event of its own (the mouse, or a
\* finger that went down before): a press, a finger at rest or moving, a release
Presses(ids, xs) == {In(One(id, "Started", x), <<>>, <<>>) : id \in ids, x \in xs}
Rests(ids, xs) == {In(One(id, ph, x), <<>>, <<>>) :
                     id \in ids, ph \in {"Stationary", "Moved"}, x \in xs}
Releases(ids, xs) == {In(One(id, ph, x), <<>>, <<>>) :
                        id \in ids, ph \in {"Ended", "Cancelled"}, x \in xs}
TwoPresses(xs) == {In(One(1, "Started", x) @@ One(2, "Started", y), <<>>, <<>>) :
                     x \in xs, y \in xs}

\* a finger with its events: down, moved, up
Downs(ids, xs) == {In(NoTouch, <<TouchEvent(id, "Started", x)>>, <<>>) : id \in ids, x \in xs}
Moves(ids, xs) == {In(One(id, "Moved", x), <<TouchEvent(id, "Moved", x)>>, <<>>) :
                     id \in ids, x \in xs}
Ups(ids, xs) == {In(One(id, ph, x), <<TouchEvent(id, ph, x)>>, <<>>) :
                   id \in ids, ph \in {"Ended", "Cancelled"}, x \in xs}
\* a Moved event for a finger the Judge has no tracker of
StrayMoves(ids) == {In(NoTouch, <<TouchEvent(id, "Moved", 0)>>, <<>>) : id \in ids}

Keys(seqs) == {In(NoTouch, <<>>, k) : k \in seqs}
KeyTaps == {<<"down">>, <<"up">>, <<"repeat">>, <<"down", "up">>}

\* an input with the key events keys added
WithKeys(ins, seqs) == {[in EXCEPT !.keys = k] : in \in ins, k \in seqs}

\* key_down_count stays within -MaxKeys .. MaxKeys
MaxKeys == 1

\* the frame times and the inputs each chart is played with
TimesOf(c) ==
    CASE c = ChartEmpty -> {0, 30, 60}
      [] c = ChartFake -> {0, 30, 60}
      [] c = ChartClick -> {0, 7, 8, 11, 12, 21, 22, 30, 38, 39, 48, 49, 52, 53, 60}
      [] c = ChartClicks -> {0, 8, 21, 30, 38, 47, 52, 53, 60, 61}
      [] c = ChartLines -> {0, 8, 21, 30, 39, 52, 53}
      [] c = ChartHold -> {0, 12, 22, 30, 37, 38, 52, 53, 59, 60, 61}
      [] c = ChartFlick -> {0, 8, 22, 30, 38, 52, 53, 61}
      [] c = ChartMix -> {0, 7, 8, 11, 12, 21, 22, 30, 38, 39, 48, 49, 52, 53, 60, 61}

InputsOf(c) ==
    CASE c = ChartEmpty -> Idle \cup Presses({1}, {0}) \cup Keys(KeyTaps)
      [] c = ChartFake -> Idle \cup Presses({1}, {0}) \cup Keys(KeyTaps)
      [] c = ChartClick ->
           Idle \cup Presses({1}, {0, 15, 40}) \cup Keys(KeyTaps)
                \cup {In(Nowhere(1, "Started"), <<>>, <<>>)}
      [] c = ChartClicks ->
           Idle \cup Presses({1}, {0, 15}) \cup TwoPresses({0, 15}) \cup Keys({<<"down">>, <<"up">>})
      [] c = ChartLines ->
           Idle \cup Presses({1}, {0}) \cup Keys(KeyTaps \cup {<<"down", "down">>})
                \cup Downs({1}, {0}) \cup Moves({1}, {0})
      [] c = ChartHold ->
           Idle \cup Presses({1}, {0, 15}) \cup Rests({1}, {0, 40}) \cup Releases({1}, {0})
                \cup Keys(KeyTaps)
      [] c = ChartFlick ->
           Idle \cup Downs({1}, {0}) \cup Moves({1}, {0, 15}) \cup Ups({1}, {0})
                \cup StrayMoves({2}) \cup Rests({1}, {0})
                \cup WithKeys(Moves({1}, {0}), {<<"down">>})  \cup Keys({<<"up">>})
                \cup {In(NoTouch, <<TouchEvent(1, "Started", 0), TouchEvent(1, "Ended", 0)>>, <<>>),
                      In(One(1, "Moved", 0),
                         <<TouchEvent(1, "Cancelled", 0), TouchEvent(1, "Started", 0),
                           TouchEvent(1, "Moved", 0)>>, <<>>)}
      [] c = ChartMix -> Idle

\* touches.into_values().collect(): a HashMap yields its values in any order
Orders(ids) == {o \in [1..Cardinality(ids) -> ids] :
                  \A i, j \in 1..Cardinality(ids) : i # j => o[i] # o[j]}

Speeds == {0, 15, 18, -18}

\* speed() of each tracker has_flick is called on this frame: zero with a single
\* sample (every normalized time is 0 and the fit is degenerate), any speed otherwise
SpeedInputs(T, ids) ==
    {spd \in [ids -> Speeds] : \A id \in ids : T[id].len = 1 => spd[id] = 0}

SpeedOf(spd, id) == IF id \in DOMAIN spd THEN spd[id] ELSE 0

\* A frame may skip at most this many of the chart's frame times.
MaxSkip == 2

VARIABLES
    chart,          \* the Chart (lines of notes); fixed after construction
    judge,          \* judge[l][i]: note.judge, the JudgeStatus of note i of line l
    notes,          \* Judge.notes: per line [idx |-> ordered indices, st |-> watermark]
    trackers,       \* Judge.trackers: touch id -> VelocityTracker
    last_time,      \* Judge.last_time
    key_down_count, \* Judge.key_down_count: the u32 v is held as v when v < 2^31, as v - 2^32 otherwise
    diffs,          \* Judge.diffs
    combo,          \* Judge.combo
    max_combo,      \* Judge.max_combo
    counts,         \* Judge.counts
    num_of_notes,   \* Judge.num_of_notes
    res_time,       \* Resource.time at the last update call
    panicked,       \* the process aborted on a panic
    committed,      \* history: committed[l][i] is the judgements commit was called with for the note
    log,            \* history: the status changes of the last update call, in program order
    result,         \* the PlayResult of the last result() call
    tracker,        \* a VelocityTracker on its own: [movements, last_dir, wait]
    pushed,         \* history: the samples pushed to tracker since its creation or reset
    probe,          \* history: the last call on tracker and what it observed
    last_phase,     \* history: touch id -> phase of its latest Started, Ended or Cancelled event
    stamps          \* history: the time stamps given to the touch events of the last update

vars == <<chart, judge, notes, trackers, last_time, key_down_count, diffs, combo,
          max_combo, counts, num_of_notes, res_time, panicked, committed, log, result,
          tracker, pushed, probe, last_phase, stamps>>

(***************************************************************************)
(* VelocityTracker::empty: no samples, last_dir the zero vector, no wait.  *)
(* probe = [op, flick, spd, waited, cooling, dir, t, x, v] keeps the       *)
(* last call on tracker, what has_flick measured and returned, whether a   *)
(* consumed flick has not been released since, the consumed direction,     *)
(* the time and position of the last sample and the velocity of the touch. *)
(***************************************************************************)
empty == [movements |-> <<>>, last_dir |-> 0, wait |-> FALSE]

NoProbe == [op |-> "none", flick |-> FALSE, spd |-> 0, waited |-> FALSE, cooling |-> FALSE,
            dir |-> 0, t |-> 0, x |-> 0, v |-> 0]

\* stamps = [from, to, at]: last_time and the frame time of an update that drained
\* events, and the stamp of each event in arrival order; a stamp is the fraction
\* num / den of 1/100 s
NoStamps == [from |-> 0, to |-> 0, at |-> <<>>]

(***************************************************************************)
(* JudgeStatus                                                             *)
(***************************************************************************)
NotJudged == [s |-> "NotJudged"]
PreJudge == [s |-> "PreJudge"]
Judged == [s |-> "Judged"]
HoldStatus(perfect, at, diff, pre) ==
    [s |-> "Hold", perfect |-> perfect, at |-> at, diff |-> diff, pre |-> pre]

Lines == 1..Len(chart)
NoteIds(l) == 1..Len(chart[l])

(***************************************************************************)
(* Judge::new                                                              *)
(***************************************************************************)
\* Insert id into the time-sorted sequence s behind every entry whose time is
\* not greater: sort_by_key is a stable sort.
\* an unstable sort: id goes in front of the entries of equal time
RECURSIVE InsertByTimeBeforeTies(_, _, _)
InsertByTimeBeforeTies(line, s, id) ==
    IF s = <<>> THEN <<id>>
    ELSE IF line[Head(s)].time < line[id].time
         THEN <<Head(s)>> \o InsertByTimeBeforeTies(line, Tail(s), id)
         ELSE <<id>> \o s

RECURSIVE InsertByTime(_, _, _)
InsertByTime(line, s, id) ==
    IF s = <<>> THEN <<id>>
    ELSE IF line[Head(s)].time <= line[id].time
         THEN <<Head(s)>> \o InsertByTime(line, Tail(s), id)
         ELSE <<id>> \o s

\* idx without the filter on fake
RECURSIVE SortedIdxWithFake(_, _)
SortedIdxWithFake(line, n) ==
    IF n = 0 THEN <<>>
    ELSE InsertByTime(line, SortedIdxWithFake(line, n - 1), n)

RECURSIVE SortedIdx(_, _)
SortedIdx(line, n) ==
    IF n = 0 THEN <<>>
    ELSE IF line[n].fake THEN SortedIdx(line, n - 1)
         ELSE InsertByTime(line, SortedIdx(line, n - 1), n)

NewNotes(c) == [l \in 1..Len(c) |-> [idx |-> SortedIdx(c[l], Len(c[l])), st |-> 0]]

CountFirstLine(c, l) ==
    IF l = 0 THEN 0 ELSE Cardinality({i \in 1..Len(c[1]) : ~c[1][i].fake})

RECURSIVE CountNotes(_, _)
CountNotes(c, l) ==
    IF l = 0 THEN 0
    ELSE Cardinality({i \in 1..Len(c[l]) : ~c[l][i].fake}) + CountNotes(c, l - 1)

NoResult == [score |-> 0, accuracy |-> [p |-> 0, q |-> 0, defined |-> FALSE], max_combo |-> 0, num_of_notes |-> 0,
             counts |-> <<0, 0, 0, 0>>, early |-> 0, late |-> 0]

JudgeNew(c) ==
    /\ chart = c
    /\ judge = [l \in 1..Len(c) |-> [i \in 1..Len(c[l]) |-> NotJudged]]
    /\ notes = NewNotes(c)
    /\ trackers = <<>>
    /\ last_time = 0
    /\ key_down_count = 0
    /\ diffs = <<>>
    /\ combo = 0
    /\ max_combo = 0
    /\ counts = <<0, 0, 0, 0>>
    /\ num_of_notes = CountNotes(c, Len(c))
    /\ res_time = 0
    /\ panicked = FALSE
    /\ committed = [l \in 1..Len(c) |-> [i \in 1..Len(c[l]) |-> <<>>]]
    /\ log = <<>>
    /\ result = NoResult
    /\ tracker = empty
    /\ pushed = <<>>
    /\ probe = NoProbe
    /\ last_phase = <<>>
    /\ stamps = NoStamps

Init == \E c \in Charts : JudgeNew(c)

(***************************************************************************)
(* Judge::commit, on the record a = [diffs, counts, combo, max_combo].     *)
(* diff is <<d>> for Some(d) and <<>> for None.                            *)
(***************************************************************************)
CommitNoMax(a, what, diff) ==
    [diffs |-> a.diffs \o diff,
     counts |-> [a.counts EXCEPT ![JudgementIndex(what)] = @ + 1],
     combo |-> IF what \in {"Perfect", "Good"} THEN a.combo + 1 ELSE 0,
     max_combo |-> a.max_combo]

Commit(a, what, diff) ==
    IF what \in {"Perfect", "Good"}
    THEN LET c == a.combo + 1
         IN [diffs |-> a.diffs \o diff,
             counts |-> [a.counts EXCEPT ![JudgementIndex(what)] = @ + 1],
             combo |-> c,
             max_combo |-> IF c > a.max_combo THEN c ELSE a.max_combo]
    ELSE [diffs |-> a.diffs \o diff,
          counts |-> [a.counts EXCEPT ![JudgementIndex(what)] = @ + 1],
          combo |-> 0,
          max_combo |-> a.max_combo]

Aggregate == [diffs |-> diffs, counts |-> counts, combo |-> combo, max_combo |-> max_combo]

(***************************************************************************)
(* Judge::accuracy and Judge::score.  accuracy is the f64 quotient p / q   *)
(* as [p, q, defined]: a division by 0.0 yields NaN or an infinity, and    *)
(* defined is then FALSE.                                                  *)
(***************************************************************************)
AccuracyGoodFull(cnt, n) ==
    [p |-> 100 * cnt[1] + 100 * cnt[2], q |-> 100 * n, defined |-> n # 0]

AccuracyOf(cnt, n) ==
    [p |-> 100 * cnt[1] + 65 * cnt[2], q |-> 100 * n, defined |-> n # 0]

\* f64::round of p / q for p >= 0, q > 0: half away from zero.
Round(p, q) == (2 * p + q) \div (2 * q)

\* round(1000 * v / n), split at the integer part of v / n to stay within
\* 32-bit integers.
RoundThousand(v, n) == 1000 * (v \div n) + Round(1000 * (v % n), n)

\* (0.9 * accuracy + max_combo / n * 0.1) * TOTAL with accuracy = p / (100 n) is
\* (9 p + 100 max_combo) * 1000 / n.
ScoreOf(cnt, mc, n) ==
    IF cnt[1] = n THEN TOTAL
    ELSE RoundThousand(9 * AccuracyOf(cnt, n).p + 100 * mc, n)

accuracy == AccuracyOf(counts, num_of_notes)
score == ScoreOf(counts, max_combo, num_of_notes)

(***************************************************************************)
(* The frame clock: res.time grows from frame to frame, and a frame skips   *)
(* at most MaxSkip of the chart's frame times.                             *)
(***************************************************************************)
NextTimes == {t \in TimesOf(chart) :
                /\ t > res_time
                /\ Cardinality({u \in TimesOf(chart) : res_time < u /\ u < t}) <= MaxSkip}

\* An entry of the history variable log.
Ev(via, l, id, what) == [via |-> via, line |-> l, id |-> id, what |-> what]

(***************************************************************************)
(* The watermark advance (the while loops at lines 590-597 and 630-635).   *)
(***************************************************************************)
\* the watermark moved past the end of the list
RECURSIVE AdvanceStOffByOne(_, _, _)
AdvanceStOffByOne(idx, Jl, st) ==
    IF st < Len(idx) /\ Jl[idx[st + 1]].s = "Judged"
    THEN AdvanceStOffByOne(idx, Jl, st + 1)
    ELSE IF st = Len(idx) THEN st + 1 ELSE st

\* an if in place of the while
AdvanceStOnce(idx, Jl, st) ==
    IF st < Len(idx) /\ Jl[idx[st + 1]].s = "Judged" THEN st + 1 ELSE st

RECURSIVE AdvanceSt(_, _, _)
AdvanceSt(idx, Jl, st) ==
    IF st < Len(idx) /\ Jl[idx[st + 1]].s = "Judged"
    THEN AdvanceSt(idx, Jl, st + 1)
    ELSE st

(***************************************************************************)
(* Judge::auto_play_update.  w = [J, js, lg]: the statuses, the local      *)
(* judgements list and the log.                                            *)
(***************************************************************************)
\* the for loop over idx[st..] of one line, from position k (1-based)
RECURSIVE AutoLine(_, _, _, _)
AutoLine(w, l, k, t) ==
    LET idx == notes[l].idx IN
    IF k > Len(idx) THEN w
    ELSE
      LET id == idx[k]
          note == chart[l][id]
          s == w.J[l][id]
      IN IF s.s = "Hold" /\ note.kind = "Hold" /\ t >= note.end_time
         THEN AutoLine([w EXCEPT !.J[l][id] = Judged,
                                 !.js = Append(@, <<l, id>>),
                                 !.lg = Append(@, Ev("auto", l, id, "Perfect"))], l, k + 1, t)
         ELSE IF s.s # "NotJudged" THEN AutoLine(w, l, k + 1, t)
         ELSE IF note.time > t THEN w
         ELSE IF note.kind = "Hold"
              THEN AutoLine([w EXCEPT !.J[l][id] = HoldStatus(TRUE, t, t - note.time, FALSE),
                                      !.lg = Append(@, Ev("autohold", l, id, "None"))], l, k + 1, t)
              ELSE AutoLine([w EXCEPT !.J[l][id] = Judged,
                                      !.js = Append(@, <<l, id>>),
                                      !.lg = Append(@, Ev("auto", l, id, "Perfect"))], l, k + 1, t)

\* the outer for loop over the lines, from line l
RECURSIVE AutoLines(_, _, _)
AutoLines(w, l, t) ==
    IF l > Len(chart) THEN w
    ELSE LET w1 == AutoLine(w, l, w.N[l].st + 1, t)
             st1 == AdvanceSt(notes[l].idx, w1.J[l], w1.N[l].st)
         IN AutoLines([w1 EXCEPT !.N[l].st = st1], l + 1, t)

\* the commit loop of auto_play_update
RECURSIVE AutoCommits(_, _)
AutoCommits(a, js) ==
    IF js = <<>> THEN a
    ELSE AutoCommits(Commit(a, "Perfect", <<>>), Tail(js))

\* lines 637-657: what the commit loop of auto_play_update emits for a note of the kind
AutoEffects(kind) ==
    [particle |-> "Perfect",
     sfx |-> IF kind \in {"Click", "Drag", "Flick"} THEN kind ELSE "None",
     bad_note |-> FALSE]

\* committed, extended by the judgements js = <<what, l, id, ...>> in order
RECURSIVE Record(_, _)
Record(cm, js) ==
    IF js = <<>> THEN cm
    ELSE LET j == Head(js)
         IN Record([cm EXCEPT ![j[2]][j[3]] = Append(@, j[1])], Tail(js))

RECURSIVE AsPerfect(_)
AsPerfect(js) ==
    IF js = <<>> THEN <<>>
    ELSE <<<<"Perfect", Head(js)[1], Head(js)[2]>>>> \o AsPerfect(Tail(js))

AutoPlayUpdate ==
    /\ ~panicked
    /\ \E t \in NextTimes :
         LET w == AutoLines([J |-> judge, N |-> notes, js |-> <<>>, lg |-> <<>>], 1, t)
             a == AutoCommits(Aggregate, w.js)
         IN /\ res_time' = t
            /\ judge' = w.J
            /\ notes' = w.N
            /\ diffs' = a.diffs
            /\ counts' = a.counts
            /\ combo' = a.combo
            /\ max_combo' = a.max_combo
            /\ committed' = Record(committed, AsPerfect(w.js))
            /\ log' = w.lg
    /\ UNCHANGED <<chart, trackers, last_time, key_down_count, num_of_notes, panicked, result,
                   tracker, pushed, probe, last_phase, stamps>>

NextAuto == AutoPlayUpdate

InitAuto == \E c \in Charts \cup {ChartMix} : JudgeNew(c)

SpecAuto == InitAuto /\ [][NextAuto]_vars

(***************************************************************************)
(* VelocityTracker, as Judge::update uses it.  A tracker is                *)
(* [len, last_dir, wait]: len is movements.len().  The fitted velocity     *)
(* speed() is a function of the sampled positions, which the input device  *)
(* supplies: here it is the frame input spd, a signed speed along one      *)
(* axis; its direction is its sign.  FlickThreshold is                     *)
(* FLICK_SPEED_THRESHOLD * dpi / 275 in the unit of spd and FlickRelease   *)
(* is threshold * (1.2 / 1.8).                                             *)
(***************************************************************************)
FlickThreshold == 18
FlickRelease == 12

Sign(v) == IF v > 0 THEN 1 ELSE IF v < 0 THEN -1 ELSE 0

TrackerNew == [len |-> 1, last_dir |-> 0, wait |-> FALSE]

TrackerPush(tr) ==
    [tr EXCEPT !.len = IF tr.len = RECORD_MAX THEN RECORD_MAX ELSE tr.len + 1]

\* the direction test inverted: wait is cleared while the direction is within the margin
AfterHasFlickInverted(tr, spd) ==
    IF tr.wait /\ (Abs(spd) <= FlickRelease \/ 10 * Abs(tr.last_dir * Sign(spd) - 1) <= 4)
    THEN [tr EXCEPT !.wait = FALSE]
    ELSE tr

\* the tracker after has_flick: wait is cleared when the speed dropped or the
\* direction left the margin |last_dir . dir - 1| <= 0.4
AfterHasFlick(tr, spd) ==
    IF tr.wait /\ (Abs(spd) <= FlickRelease \/ 10 * Abs(tr.last_dir * Sign(spd) - 1) > 4)
    THEN [tr EXCEPT !.wait = FALSE]
    ELSE tr

HasFlick(tr, spd) == ~AfterHasFlick(tr, spd).wait /\ Abs(spd) >= FlickThreshold

\* wait left as it is
ConsumeFlickNoWait(tr, spd) == [tr EXCEPT !.last_dir = Sign(spd)]

ConsumeFlick(tr, spd) == [tr EXCEPT !.last_dir = Sign(spd), !.wait = TRUE]

(***************************************************************************)
(* VelocityTracker on its own, with its samples.  movements is the deque   *)
(* of samples [t, x]: t in ticks, x along one axis in the unit that makes  *)
(* a speed of FLICK_SPEED_THRESHOLD * dpi / 275 equal to FlickThreshold    *)
(* per tick.  All arithmetic is exact.                                     *)
(***************************************************************************)
Sample(t, x) == [t |-> t, x |-> x]

\* pop_back in place of pop_front
PushEvictNewest(tr, sample) ==
    [tr EXCEPT !.movements =
       IF Len(@) = RECORD_MAX THEN Append(SubSeq(@, 1, Len(@) - 1), sample)
       ELSE Append(@, sample)]

\* VelocityTracker::push
Push(tr, sample) ==
    [tr EXCEPT !.movements =
       IF Len(@) = RECORD_MAX THEN Append(Tail(@), sample) ELSE Append(@, sample)]

\* VelocityTracker::new
New(sample) == Push(empty, sample)

\* VelocityTracker::reset
Reset(tr) == [tr EXCEPT !.movements = <<>>, !.last_dir = 0, !.wait = FALSE]

RECURSIVE SeqSum(_)
SeqSum(s) == IF s = <<>> THEN 0 ELSE Head(s) + SeqSum(Tail(s))

\* the least-squares sums of speed(), each of s_xx, s_xy, s_xx2, s_x2y, s_x2x2
\* multiplied by n, and the linear term b as the quotient num / den
SpeedFit(m) ==
    LET n == Len(m)
        lst == m[n].t
        T == [k \in 1..n |-> m[k].t - lst]
        sum_x == SeqSum(T)
        sum_x2 == SeqSum([k \in 1..n |-> T[k] * T[k]])
        sum_x3 == SeqSum([k \in 1..n |-> T[k] * T[k] * T[k]])
        sum_x4 == SeqSum([k \in 1..n |-> T[k] * T[k] * T[k] * T[k]])
        sum_y == SeqSum([k \in 1..n |-> m[k].x])
        sum_x_y == SeqSum([k \in 1..n |-> T[k] * m[k].x])
        sum_x2_y == SeqSum([k \in 1..n |-> T[k] * T[k] * m[k].x])
        s_xx == n * sum_x2 - sum_x * sum_x
        s_xy == n * sum_x_y - sum_y * sum_x
        s_xx2 == n * sum_x3 - sum_x * sum_x2
        s_x2y == n * sum_x2_y - sum_y * sum_x2
        s_x2x2 == n * sum_x4 - sum_x2 * sum_x2
    IN [den |-> s_xx * s_x2x2 - s_xx2 * s_xx2,
        num |-> s_xy * s_x2x2 - s_x2y * s_xx2]

\* speed() on the integer grid: the zero vector without samples or with a zero
\* denominator, else num / den rounded toward zero, but away from FlickRelease
\* when it lies above it, so that it compares with FlickRelease and with
\* FlickThreshold as the exact quotient does
SpeedOfSamples(m) ==
    IF m = <<>> THEN 0
    ELSE LET f == SpeedFit(m)
             a == Abs(f.num)
             d == Abs(f.den)
         IN IF d = 0 THEN 0
            ELSE LET q == a \div d
                 IN Sign(f.num) * Sign(f.den) *
                      (IF q = FlickRelease /\ a > FlickRelease * d THEN q + 1 ELSE q)

(***************************************************************************)
(* Handler: the key events of the frame, folded over key_down_count.       *)
(* h = [count, keys_down, underflow].  key_up_event subtracts 1 from a     *)
(* u32: at 0 that is an overflow, which panics or wraps with the build.    *)
(***************************************************************************)
RECURSIVE HandleKeys(_, _)
HandleKeys(h, keys) ==
    IF keys = <<>> THEN h
    ELSE LET k == Head(keys)
         IN HandleKeys(
              CASE k = "down" -> [h EXCEPT !.count = @ + 1, !.keys_down = @ + 1]
                [] k = "repeat" -> h
                [] k = "up" -> [h EXCEPT !.count = @ - 1,
                                         !.underflow = @ \/ h.count = 0],
              Tail(keys))

(***************************************************************************)
(* The interpolated event times (lines 280-284): delta is (t - last_time)  *)
(* over the number of events plus one, and the running time, which starts  *)
(* at last_time, grows by delta before each event.  With den the divisor,  *)
(* the running time is acc / den.                                          *)
(***************************************************************************)
\* the running time after k of the events
RECURSIVE RunningTime(_, _, _, _)
RunningTime(lt, t, den, k) ==
    IF k = 0 THEN lt * den ELSE RunningTime(lt, t, den, k - 1) + (t - lt)

\* delta taken over the number of events
EventStampsNoGap(lt, t, n) ==
    [k \in 1..n |-> [num |-> RunningTime(lt, t, n, k), den |-> n]]

EventStamps(lt, t, n) ==
    [k \in 1..n |-> [num |-> RunningTime(lt, t, n + 1, k), den |-> n + 1]]

(***************************************************************************)
(* The touch lifecycle loop (lines 280-308).  m = [T, tm]: the trackers    *)
(* and the map of touches by id.                                           *)
(***************************************************************************)
MapPut(f, k, v) == [x \in DOMAIN f \cup {k} |-> IF x = k THEN v ELSE f[x]]

\* the tracker kept on Ended and Cancelled
MapDelNothing(f, k) == f

MapDel(f, k) == [x \in DOMAIN f \ {k} |-> f[x]]

RECURSIVE Lifecycle(_, _)
Lifecycle(m, events) ==
    IF events = <<>> THEN m
    ELSE LET e == Head(events)
         IN Lifecycle(
              CASE e.phase = "Started" ->
                     [T |-> MapPut(m.T, e.id, TrackerNew),
                      tm |-> IF e.id \in DOMAIN m.tm
                             THEN [m.tm EXCEPT ![e.id].phase = "Started"]
                             ELSE MapPut(m.tm, e.id, Touch(e.id, "Started", e.x, TRUE))]
                [] e.phase = "Moved" ->
                     IF e.id \in DOMAIN m.T
                     THEN [m EXCEPT !.T[e.id] = TrackerPush(@)]
                     ELSE m
                [] e.phase \in {"Ended", "Cancelled"} ->
                     [m EXCEPT !.T = MapDel(m.T, e.id)],
              Tail(events))

(***************************************************************************)
(* Clicks and flicks (lines 335-407).  c = [x, ok, click, flick, t] is the *)
(* touch being matched: every line's transform is the identity, so         *)
(* pos[line][touch] is Some(x) when ok and None otherwise.                 *)
(* cl = [tgt, dist10, lim] is closest: tgt is <<>> for None and            *)
(* <<line, id>> for Some, dist10 is ten times closest.1, lim is closest.2. *)
(***************************************************************************)
XDiffMax10 == 19 * NoteWidth

\* dt > LIMIT_BAD - LIMIT_PERFECT * (dist - 0.9).max(0.), times ten
OutsideBad(dt, dist) == 10 * dt > 10 * LIMIT_BAD - LIMIT_PERFECT * Max(dist - 9, 0)

ScanMargin(note, t) == note.time - t + 1

\* line 347: only a NotJudged note is a candidate
ScannableAnyStatus(s) == TRUE

Scannable(s) == s.s = "NotJudged"

\* every kind accepted for every touch
AcceptableAlways(c, note) == TRUE

\* line 364, second operand: a tap accepts a Flick note only once its time has passed
Acceptable(c, note) == c.flick \/ note.kind # "Flick" \/ note.time < c.t

\* the inner for loop over idx[st..], from position k
RECURSIVE ScanLine(_, _, _, _, _)
ScanLine(J, cl, l, k, c) ==
    LET idx == notes[l].idx IN
    IF k > Len(idx) THEN cl
    ELSE
      LET id == idx[k]
          note == chart[l][id]
          dist == Abs(note.x - c.x)
          dt == Abs(note.time - c.t)
      IN IF ~Scannable(J[l][id]) THEN ScanLine(J, cl, l, k + 1, c)
         ELSE IF note.kind = "Drag" \/ (~c.click /\ note.kind \in {"Click", "Hold"})
              THEN ScanLine(J, cl, l, k + 1, c)
         ELSE IF note.time - c.t >= cl.lim THEN cl
         ELSE IF OutsideBad(dt, dist) THEN ScanLine(J, cl, l, k + 1, c)
         ELSE IF /\ (dist < NoteWidth \/ 10 * dist < cl.dist10)
                 /\ Acceptable(c, note)
              THEN LET cl2 == [tgt |-> <<l, id>>, dist10 |-> 10 * dist,
                               lim |-> ScanMargin(note, c.t)]
                   IN IF dist < NoteWidth THEN cl2 ELSE ScanLine(J, cl2, l, k + 1, c)
         ELSE ScanLine(J, cl, l, k + 1, c)

\* the outer for loop over the lines, from line l
RECURSIVE ScanLines(_, _, _, _, _)
ScanLines(J, N, cl, l, c) ==
    IF l > Len(chart) THEN cl
    ELSE IF ~c.ok THEN ScanLines(J, N, cl, l + 1, c)
    ELSE ScanLines(J, N, ScanLine(J, cl, l, N[l].st + 1, c), l + 1, c)

Closest(J, N, c) ==
    ScanLines(J, N, [tgt |-> <<>>, dist10 |-> XDiffMax10, lim |-> LIMIT_BAD], 1, c)

\* the time difference the click resolution judges by: closest.2
ClickDt(cl) == Abs(cl.lim)

\* the test without the exemption of Hold notes
NotBadByTimeOnly(dt, note) == dt <= LIMIT_GOOD

\* line 383: a tap is judged Bad only beyond LIMIT_GOOD and never on a Hold note
NotBad(dt, note) == dt <= LIMIT_GOOD \/ note.kind = "Hold"

\* lines 374-406: the resolution of the matched candidate.
\* w = [J, T, js, lg]; js holds <<judgement, line, id, diff>>
Resolve(w, cl, touch, c, spd) ==
    IF cl.tgt = <<>> THEN w
    ELSE
      LET l == cl.tgt[1]
          id == cl.tgt[2]
          note == chart[l][id]
          dt == ClickDt(cl)
      IN IF c.click
         THEN IF note.kind = "Flick" THEN w
              ELSE IF NotBad(dt, note)
              THEN IF note.kind = "Click"
                   THEN LET what == IF dt <= LIMIT_PERFECT THEN "Perfect" ELSE "Good"
                        IN [w EXCEPT !.J[l][id] = Judged,
                                     !.js = Append(@, <<what, l, id, <<>>>>),
                                     !.lg = Append(@, Ev("touch", l, id, what))]
                   ELSE [w EXCEPT !.J[l][id] =
                                     HoldStatus(dt <= LIMIT_PERFECT, c.t, c.t - note.time, FALSE),
                                  !.lg = Append(@, Ev("touchhold", l, id, "None"))]
              ELSE [w EXCEPT !.J[l][id] = Judged,
                             !.js = Append(@, <<"Bad", l, id, <<>>>>),
                             !.lg = Append(@, Ev("touch", l, id, "Bad"))]
         ELSE LET w1 == [w EXCEPT !.J[l][id] = PreJudge,
                                  !.lg = Append(@, Ev("flick", l, id, "None"))]
              IN IF touch.id \in DOMAIN w.T
                 THEN [w1 EXCEPT !.T[touch.id] = ConsumeFlick(@, spd)]
                 ELSE w1

\* one iteration of the loop over touches
TouchStep(w, N, touch, spd, t) ==
    LET click == touch.phase = "Started"
        tracked == touch.phase \in {"Moved", "Stationary"} /\ touch.id \in DOMAIN w.T
        flick == tracked /\ HasFlick(w.T[touch.id], spd)
        w1 == IF tracked THEN [w EXCEPT !.T[touch.id] = AfterHasFlick(@, spd)] ELSE w
        c == [x |-> touch.x, ok |-> touch.ok, click |-> click, flick |-> flick, t |-> t]
    IN IF ~(click \/ flick) THEN w1
       ELSE Resolve(w1, Closest(w1.J, N, c), touch, c, spd)

RECURSIVE TouchLoop(_, _, _, _, _)
TouchLoop(w, N, touches, spd, t) ==
    IF touches = <<>> THEN w
    ELSE TouchLoop(TouchStep(w, N, Head(touches), SpeedOf(spd, Head(touches).id), t),
                   N, Tail(touches), spd, t)

(***************************************************************************)
(* Key presses (lines 408-456).                                            *)
(***************************************************************************)
\* line 421: the notes a key press may judge
KeyCandidateAnyStatus(s, note) == note.kind \in {"Click", "Hold"}

KeyCandidate(s, note) == s.s = "NotJudged" /\ note.kind \in {"Click", "Hold"}

\* find: the first NotJudged Click / Hold note of line l at or after position k,
\* <<>> when there is none
RECURSIVE FirstKeyNote(_, _, _)
FirstKeyNote(J, l, k) ==
    LET idx == notes[l].idx IN
    IF k > Len(idx) THEN <<>>
    ELSE IF KeyCandidate(J[l][idx[k]], chart[l][idx[k]])
         THEN <<l, idx[k]>>
         ELSE FirstKeyNote(J, l, k + 1)

\* min_by_key over the lines' candidates: the first of the earliest ones
RECURSIVE EarliestKeyNote(_, _, _, _)
EarliestKeyNote(J, N, l, best) ==
    IF l > Len(chart) THEN best
    ELSE LET cand == FirstKeyNote(J, l, N[l].st + 1)
         IN EarliestKeyNote(J, N, l + 1,
              IF cand = <<>> THEN best
              ELSE IF best = <<>> THEN cand
              ELSE IF chart[cand[1]][cand[2]].time < chart[best[1]][best[2]].time
                   THEN cand ELSE best)

KeyLimit(note) == IF note.kind = "Click" THEN LIMIT_BAD ELSE LIMIT_GOOD

\* the Bad tier left out
TierNoBad(dt) ==
    IF dt <= LIMIT_PERFECT THEN "Perfect" ELSE "Good"

Tier(dt) ==
    IF dt <= LIMIT_PERFECT THEN "Perfect"
    ELSE IF dt <= LIMIT_GOOD THEN "Good" ELSE "Bad"

RECURSIVE KeyLoop(_, _, _, _)
KeyLoop(w, N, n, t) ==
    IF n = 0 THEN w
    ELSE
      LET tgt == EarliestKeyNote(w.J, N, 1, <<>>) IN
      IF tgt = <<>> THEN w
      ELSE
        LET l == tgt[1]
            id == tgt[2]
            note == chart[l][id]
            dt == Abs(t - note.time)
        IN IF dt <= KeyLimit(note)
           THEN IF note.kind = "Click"
                THEN KeyLoop([w EXCEPT !.J[l][id] = Judged,
                                       !.js = Append(@, <<Tier(dt), l, id, <<>>>>),
                                       !.lg = Append(@, Ev("key", l, id, Tier(dt)))],
                             N, n - 1, t)
                ELSE KeyLoop([w EXCEPT !.J[l][id] =
                                          HoldStatus(dt <= LIMIT_PERFECT, t, t - note.time, FALSE),
                                       !.lg = Append(@, Ev("keyhold", l, id, "None"))],
                             N, n - 1, t)
           ELSE KeyLoop(w, N, n - 1, t)

(***************************************************************************)
(* The passive sweep (lines 457-507).  kdc is self.key_down_count and xs   *)
(* the set of the positions pos[line][..] that are Some.                   *)
(***************************************************************************)
\* the reach taken as one note width
InReachOneWidth(xs, x) == \E p \in xs : Abs(p - x) <= NoteWidth

InReach(xs, x) == \E p \in xs : 10 * Abs(p - x) <= XDiffMax10

Caught(xs, x, dt) ==
    \E p \in xs : /\ 10 * Abs(p - x) <= XDiffMax10
                  /\ ~OutsideBad(dt, Abs(p - x))

TooLateInclusive(note, t) == note.time <= t - LIMIT_BAD

TooLate(note, t) == note.time < t - LIMIT_BAD

PreReleaseLate(note, t) == t - LIMIT_BAD >= note.end_time

PreRelease(note, t) == t + LIMIT_BAD >= note.end_time

RECURSIVE SweepLine(_, _, _, _, _, _)
SweepLine(w, l, k, t, kdc, xs) ==
    LET idx == notes[l].idx IN
    IF k > Len(idx) THEN w
    ELSE
      LET id == idx[k]
          note == chart[l][id]
          s == w.J[l][id]
          next(w2) == SweepLine(w2, l, k + 1, t, kdc, xs)
      IN IF note.kind = "Hold" /\ s.s = "Hold" /\ PreRelease(note, t)
         THEN next([w EXCEPT !.J[l][id].pre = TRUE])
         ELSE IF note.kind = "Hold" /\ s.s = "Hold" /\ kdc = 0 /\ ~InReach(xs, note.x)
         THEN next([w EXCEPT !.J[l][id] = Judged,
                             !.js = Append(@, <<"Miss", l, id, <<>>>>),
                             !.lg = Append(@, Ev("holdmiss", l, id, "Miss"))])
         ELSE IF s.s # "NotJudged" THEN next(w)
         ELSE IF TooLate(note, t)
         THEN next([w EXCEPT !.J[l][id] = Judged,
                             !.js = Append(@, <<"Miss", l, id, <<>>>>),
                             !.lg = Append(@, Ev("miss", l, id, "Miss"))])
         ELSE IF note.time > t + LIMIT_BAD THEN w
         ELSE IF note.kind # "Drag" /\ (kdc = 0 \/ note.kind # "Flick") THEN next(w)
         ELSE IF kdc # 0 \/ Caught(xs, note.x, Abs(t - note.time))
         THEN next([w EXCEPT !.J[l][id] = PreJudge,
                             !.lg = Append(@, Ev("catch", l, id, "None"))])
         ELSE next(w)

RECURSIVE SweepLines(_, _, _, _, _, _)
SweepLines(w, N, l, t, kdc, xs) ==
    IF l > Len(chart) THEN w
    ELSE SweepLines(SweepLine(w, l, N[l].st + 1, t, kdc, xs), N, l + 1, t, kdc, xs)

(***************************************************************************)
(* The pre-judge sweep (lines 509-535).                                    *)
(***************************************************************************)
\* the end taken as strictly passed
HoldEndedStrict(note, t) == note.end_time < t

HoldEnded(note, t) == note.end_time <= t

RECURSIVE FinalizeLine(_, _, _, _)
FinalizeLine(w, l, k, t) ==
    LET idx == notes[l].idx IN
    IF k > Len(idx) THEN w
    ELSE
      LET id == idx[k]
          note == chart[l][id]
          s == w.J[l][id]
      IN IF s.s = "Hold" /\ s.pre /\ note.kind = "Hold" /\ HoldEnded(note, t)
         THEN LET what == IF s.perfect THEN "Perfect" ELSE "Good"
              IN FinalizeLine([w EXCEPT !.J[l][id] = Judged,
                                        !.js = Append(@, <<what, l, id, <<s.diff>>>>),
                                        !.lg = Append(@, Ev("holdend", l, id, what))],
                              l, k + 1, t)
         ELSE IF t < note.time THEN w
         ELSE IF s.s = "PreJudge"
         THEN FinalizeLine([w EXCEPT !.J[l][id] = Judged,
                                     !.js = Append(@, <<"Perfect", l, id, <<>>>>),
                                     !.lg = Append(@, Ev("prejudge", l, id, "Perfect"))],
                           l, k + 1, t)
         ELSE FinalizeLine(w, l, k + 1, t)

RECURSIVE FinalizeLines(_, _, _, _)
FinalizeLines(w, N, l, t) ==
    IF l > Len(chart) THEN w
    ELSE FinalizeLines(FinalizeLine(w, l, N[l].st + 1, t), N, l + 1, t)

(***************************************************************************)
(* The commit loop (lines 536-548) and the watermark advance (590-597).    *)
(***************************************************************************)
\* a diff recorded for every judgement
CommitDiffAlways(j, t) ==
    IF j[4] = <<>> THEN <<t - chart[j[2]][j[3]].time>> ELSE j[4]

CommitDiff(j, t) ==
    IF j[1] \in {"Good", "Bad"}
    THEN (IF j[4] = <<>> THEN <<t - chart[j[2]][j[3]].time>> ELSE j[4])
    ELSE <<>>

RECURSIVE Commits(_, _, _)
Commits(a, js, t) ==
    IF js = <<>> THEN a
    ELSE Commits(Commit(a, Head(js)[1], CommitDiff(Head(js), t)), Tail(js), t)

\* lines 549-588: what the commit loop emits for a judgement on a note of the kind:
\* the colour of the particles, the hit sound, and whether a BadNote is pushed
ManualEffects(kind, what) ==
    IF kind = "Hold" THEN [particle |-> "None", sfx |-> "None", bad_note |-> FALSE]
    ELSE [particle |-> IF what \in {"Perfect", "Good"} THEN what ELSE "None",
          sfx |-> IF what \in {"Perfect", "Good"} THEN kind ELSE "None",
          bad_note |-> what = "Bad"]

Watermarks(J, N) == [l \in DOMAIN N |-> [N[l] EXCEPT !.st = AdvanceSt(N[l].idx, J[l], @)]]

(***************************************************************************)
(* Judge::update, manual path                                              *)
(***************************************************************************)
\* the frame from the drained events on, with the touches taken in the given order
\* and the tracker speeds spd: the statuses, trackers, watermarks and aggregate it ends in
FrameOutcome(t, in, h, order, spd) ==
    LET m == Lifecycle([T |-> trackers, tm |-> in.tm], in.events)
        touches == [i \in 1..Len(order) |-> m.tm[order[i]]]
        xs == {m.tm[id].x : id \in {j \in DOMAIN m.tm : m.tm[j].ok}}
        w0 == [J |-> judge, T |-> m.T, js |-> <<>>, lg |-> <<>>]
        w1 == TouchLoop(w0, notes, touches, spd, t)
        w2 == KeyLoop(w1, notes, h.keys_down, t)
        w3 == SweepLines(w2, notes, 1, t, h.count, xs)
        w4 == FinalizeLines(w3, notes, 1, t)
    IN [J |-> w4.J, T |-> w4.T, N |-> Watermarks(w4.J, notes),
        a |-> Commits(Aggregate, w4.js, t), js |-> w4.js, lg |-> w4.lg]

\* the phase of the latest Started, Ended or Cancelled event of each touch id, after
\* the events of the frame
LastPhases(f, events) ==
    LET ends == {k \in DOMAIN events : events[k].phase # "Moved"}
    IN [i \in DOMAIN f \cup {events[k].id : k \in ends} |->
          LET ks == {k \in ends : events[k].id = i}
          IN IF ks = {} THEN f[i]
             ELSE events[CHOOSE k \in ks : \A j \in ks : j <= k].phase]

\* the trackers has_flick is called on in the frame
MovingTouches(in) ==
    LET m == Lifecycle([T |-> trackers, tm |-> in.tm], in.events)
    IN {id \in DOMAIN m.tm \cap DOMAIN m.T : m.tm[id].phase \in {"Moved", "Stationary"}}

FrameTouchIds(in) == DOMAIN Lifecycle([T |-> trackers, tm |-> in.tm], in.events).tm

FrameTrackers(in) == Lifecycle([T |-> trackers, tm |-> in.tm], in.events).T

ManualFrame(t, in, h) ==
    \E order \in Orders(FrameTouchIds(in)),
       spd \in SpeedInputs(FrameTrackers(in), MovingTouches(in)) :
         \E o \in {FrameOutcome(t, in, h, order, spd)} :
            /\ judge' = o.J
            /\ trackers' = o.T
            /\ notes' = o.N
            /\ diffs' = o.a.diffs
            /\ counts' = o.a.counts
            /\ combo' = o.a.combo
            /\ max_combo' = o.a.max_combo
            /\ committed' = Record(committed, o.js)
            /\ log' = o.lg
            /\ key_down_count' = h.count
            /\ last_time' = t
            /\ res_time' = t
            /\ last_phase' = LastPhases(last_phase, in.events)
            /\ stamps' = IF in.events = <<>> THEN NoStamps
                         ELSE [from |-> last_time, to |-> t,
                               at |-> EventStamps(last_time, t, Len(in.events))]
            /\ UNCHANGED <<chart, num_of_notes, panicked, result,
                   tracker, pushed, probe>>

ManualUpdate ==
    /\ ~panicked
    /\ \E t \in NextTimes, in \in InputsOf(chart) :
         LET h == HandleKeys([count |-> key_down_count, keys_down |-> 0,
                              underflow |-> FALSE], in.keys)
         IN /\ Abs(h.count) <= MaxKeys
            /\ ManualFrame(t, in, h)

\* key_up_event at key_down_count = 0 in a build with overflow checks
KeyUpPanic ==
    /\ ~panicked
    /\ \E t \in NextTimes, in \in InputsOf(chart) :
         /\ HandleKeys([count |-> key_down_count, keys_down |-> 0,
                        underflow |-> FALSE], in.keys).underflow
         /\ res_time' = t
    /\ panicked' = TRUE
    /\ UNCHANGED <<chart, judge, notes, trackers, last_time, key_down_count, diffs, combo,
                   max_combo, counts, num_of_notes, committed, log, result,
                   tracker, pushed, probe, last_phase, stamps>>

Next == ManualUpdate \/ KeyUpPanic \/ AutoPlayUpdate

Spec == Init /\ [][Next]_vars

NextManual == ManualUpdate \/ KeyUpPanic

\* update is called again as long as the track plays
InitLive == \E c \in {ChartClick, ChartClicks, ChartHold, ChartFlick} : JudgeNew(c)

SpecManualLive == InitLive /\ [][NextManual]_vars /\ WF_vars(ManualUpdate)

(***************************************************************************)
(* Judge::reset, callable between two updates.  The history variable log   *)
(* then holds the one entry "reset".                                       *)
(***************************************************************************)
JudgeReset ==
    /\ ~panicked
    /\ notes' = [l \in DOMAIN notes |-> [notes[l] EXCEPT !.st = 0]]
    /\ trackers' = <<>>
    /\ combo' = 0
    /\ max_combo' = 0
    /\ counts' = <<0, 0, 0, 0>>
    /\ diffs' = <<>>
    /\ log' = <<Ev("reset", 0, 0, "None")>>
    /\ UNCHANGED <<chart, judge, last_time, key_down_count, num_of_notes, res_time, panicked,
                   committed, result, tracker, pushed, probe, last_phase, stamps>>

NextReset == NextManual \/ JudgeReset

SpecReset == InitLive /\ [][NextReset]_vars

(***************************************************************************)
(* Judge::result, and the scoring functions on the aggregate state a play  *)
(* of a chart of n notes can leave: counts fit the n notes, and max_combo  *)
(* is the longest of the at most counts[2] + counts[3] + 1 runs that the   *)
(* Perfect and Good commits fall into.                                     *)
(***************************************************************************)
RECURSIVE Early(_)
Early(ds) == IF ds = <<>> THEN 0 ELSE (IF Head(ds) < 0 THEN 1 ELSE 0) + Early(Tail(ds))

Result ==
    [score |-> score, accuracy |-> accuracy, max_combo |-> max_combo,
     num_of_notes |-> num_of_notes, counts |-> counts,
     early |-> Early(diffs), late |-> Len(diffs) - Early(diffs)]

GetResult ==
    /\ result' = Result
    /\ UNCHANGED <<chart, judge, notes, trackers, last_time, key_down_count, diffs, combo,
                   max_combo, counts, num_of_notes, res_time, panicked, committed, log,
                   tracker, pushed, probe, last_phase, stamps>>

NoteCounts == {1, 2, 3, 629999, 630000, 630001}

Playable(n, cnt, mc) ==
    /\ cnt[1] + cnt[2] + cnt[3] + cnt[4] <= n
    /\ mc <= cnt[1] + cnt[2]
    /\ mc * (cnt[3] + cnt[4] + 1) >= cnt[1] + cnt[2]

InitScore ==
    /\ chart = <<>>
    /\ judge = <<>>
    /\ notes = <<>>
    /\ trackers = <<>>
    /\ last_time = 0
    /\ key_down_count = 0
    /\ diffs = <<>>
    /\ res_time = 0
    /\ panicked = FALSE
    /\ committed = <<>>
    /\ log = <<>>
    /\ result = NoResult
    /\ tracker = empty
    /\ pushed = <<>>
    /\ probe = NoProbe
    /\ last_phase = <<>>
    /\ stamps = NoStamps
    /\ num_of_notes \in NoteCounts
    /\ \E p \in {0, 1, num_of_notes - 1, num_of_notes}, g \in {0, 1, 2, num_of_notes},
          b \in {0, 1}, m \in {0, 1} :
         counts = <<p, g, b, m>>
    /\ max_combo \in {0, 1, 2, counts[1], counts[1] + counts[2]}
    /\ Playable(num_of_notes, counts, max_combo)
    /\ combo \in {0, max_combo}

SpecScore == InitScore /\ [][GetResult]_vars

(***************************************************************************)
(* A touch and its tracker: the touch starts (VelocityTracker::new), then  *)
(* moves one tick at a time at a velocity of Velocities, which it changes  *)
(* at the ticks of TurnTicks only, for MaxTicks ticks; has_flick is called *)
(* at any time, consume_flick after a has_flick that returned true (lines  *)
(* 338 and 403), reset at the ticks of ResetTicks.                         *)
(***************************************************************************)
FastSpeed == 20
SlowSpeed == 17
Velocities == {0, SlowSpeed, FastSpeed, -FastSpeed}
TurnTicks == {3, 6}
ResetTicks == {4}
MaxTicks == 11

JudgeIdle ==
    /\ chart = <<>>
    /\ judge = <<>>
    /\ notes = <<>>
    /\ trackers = <<>>
    /\ last_time = 0
    /\ key_down_count = 0
    /\ diffs = <<>>
    /\ combo = 0
    /\ max_combo = 0
    /\ counts = <<0, 0, 0, 0>>
    /\ num_of_notes = 0
    /\ res_time = 0
    /\ panicked = FALSE
    /\ committed = <<>>
    /\ log = <<>>
    /\ result = NoResult
    /\ last_phase = <<>>
    /\ stamps = NoStamps

JudgeVars == <<chart, judge, notes, trackers, last_time, key_down_count, diffs, combo,
               max_combo, counts, num_of_notes, res_time, panicked, committed, log, result,
               last_phase, stamps>>

InitTracker ==
    /\ JudgeIdle
    /\ tracker = New(Sample(0, 0))
    /\ pushed = <<Sample(0, 0)>>
    /\ \E v \in Velocities : probe = [NoProbe EXCEPT !.op = "new", !.v = v]

TrackerPush1 ==
    /\ probe.t < MaxTicks
    /\ \E v \in Velocities :
         /\ v # probe.v => probe.t \in TurnTicks
         /\ LET sample == Sample(probe.t + 1, probe.x + v)
            IN /\ tracker' = Push(tracker, sample)
               /\ pushed' = Append(pushed, sample)
               /\ probe' = [probe EXCEPT !.op = "push", !.t = sample.t, !.x = sample.x,
                                          !.v = v]
    /\ UNCHANGED JudgeVars

\* has_flick; the consumed flick counts as released once the measured speed is at
\* or below 2/3 of the threshold or the direction is beyond the margin of 0.4
TrackerHasFlick ==
    /\ LET spd == SpeedOfSamples(tracker.movements)
           released == \/ 3 * Abs(spd) <= 2 * FlickThreshold
                       \/ 10 * Abs(probe.dir * Sign(spd) - 1) > 4
       IN /\ tracker' = AfterHasFlick(tracker, spd)
          /\ probe' = [probe EXCEPT !.op = "has_flick", !.flick = HasFlick(tracker, spd),
                                     !.spd = spd, !.waited = tracker.wait,
                                     !.cooling = @ /\ ~released]
    /\ UNCHANGED <<pushed, JudgeVars>>

TrackerConsumeFlick ==
    /\ probe.op = "has_flick"
    /\ probe.flick
    /\ LET spd == SpeedOfSamples(tracker.movements)
       IN /\ tracker' = ConsumeFlick(tracker, spd)
          /\ probe' = [probe EXCEPT !.op = "consume_flick", !.cooling = TRUE,
                                     !.dir = Sign(spd)]
    /\ UNCHANGED <<pushed, JudgeVars>>

TrackerReset ==
    /\ probe.t \in ResetTicks
    /\ pushed # <<>>
    /\ tracker' = Reset(tracker)
    /\ pushed' = <<>>
    /\ probe' = [probe EXCEPT !.op = "reset", !.cooling = FALSE, !.dir = 0]
    /\ UNCHANGED JudgeVars

NextTracker == TrackerPush1 \/ TrackerHasFlick \/ TrackerConsumeFlick \/ TrackerReset

SpecTracker == InitTracker /\ [][NextTracker]_vars

(***************************************************************************)
(* The claims.                                                             *)
(***************************************************************************)
NoteRefs == UNION {{<<l, i>> : i \in NoteIds(l)} : l \in Lines}
RealNotes == {n \in NoteRefs : ~chart[n[1]][n[2]].fake}
StatusOf(n) == judge[n[1]][n[2]]
NoteOf(n) == chart[n[1]][n[2]]
JudgedNotes == {n \in RealNotes : StatusOf(n).s = "Judged"}
AllResolved == JudgedNotes = RealNotes
LogEntries == {log[k] : k \in 1..Len(log)}
LoggedNote(e) == chart[e.line][e.id]
\* the last update call was a manual one, at frame time last_time
ManualFrameDone == last_time = res_time /\ res_time > 0

Rank(s) == CASE s.s = "NotJudged" -> 0
             [] s.s \in {"PreJudge", "Hold"} -> 1
             [] s.s = "Judged" -> 2

\* C1: under any sequence of manual and autoplay updates no note's status moves
\* backward in NotJudged < {PreJudge, Hold} < Judged: a PreJudge or Hold note
\* stays as it is or becomes Judged, and a Judged note never changes again.
C1_StatusMonotonic ==
    [][\A l \in Lines : \A i \in NoteIds(l) :
         /\ Rank(judge'[l][i]) >= Rank(judge[l][i])
         /\ judge[l][i].s = "PreJudge" => judge'[l][i].s \in {"PreJudge", "Judged"}
         /\ judge[l][i].s = "Hold" => judge'[l][i].s \in {"Hold", "Judged"}
         /\ judge[l][i].s = "Judged" => judge'[l][i] = judge[l][i]]_vars

\* a deferred note (PreJudge, or a Hold in progress) has just become Judged while
\* another note is already Judged
C1_Witness ==
    /\ \E e \in LogEntries : e.via \in {"prejudge", "holdend"}
    /\ Cardinality(JudgedNotes) >= 2

\* C2: commit has been called exactly once for every Judged non-fake note and never
\* for any other note, so the four counts add up to the number of Judged non-fake
\* notes, which is num_of_notes once every non-fake note is Judged.
C2_CommitOncePerNote ==
    /\ \A n \in NoteRefs :
         Len(committed[n[1]][n[2]]) = IF n \in JudgedNotes THEN 1 ELSE 0
    /\ counts[1] + counts[2] + counts[3] + counts[4] = Cardinality(JudgedNotes)
    /\ AllResolved => counts[1] + counts[2] + counts[3] + counts[4] = num_of_notes

C2_Witness ==
    /\ AllResolved
    /\ num_of_notes >= 2
    /\ counts[1] > 0
    /\ counts[4] > 0

\* C3: in a manual session in which update keeps being called with a growing
\* playback time, every non-fake note is eventually Judged (unless the process
\* aborts).
C3_EventuallyResolved == <>(panicked \/ AllResolved)

C3_Witness ==
    /\ ~panicked
    /\ AllResolved
    /\ num_of_notes >= 2
    /\ ManualFrameDone
    /\ \E e \in LogEntries : e.via \in {"miss", "holdend"}

\* C4: in an autoplay session counts[1..3] stay 0, combo = max_combo = counts[0]
\* in every state, and max_combo = num_of_notes once every non-fake note is Judged.
C4_AutoplayAllPerfect ==
    /\ counts[2] = 0 /\ counts[3] = 0 /\ counts[4] = 0
    /\ combo = max_combo
    /\ max_combo = counts[1]
    /\ AllResolved => max_combo = num_of_notes

C4_Witness ==
    /\ AllResolved
    /\ num_of_notes >= 2
    /\ max_combo = num_of_notes
    /\ \E n \in RealNotes : NoteOf(n).kind = "Hold"

\* C5: a tap matched to a Click note at frame time t is committed Perfect when
\* |note.time - t| <= 0.08, Good when it is <= 0.18, and Bad otherwise.
C5_TapTiers ==
    \A e \in LogEntries :
       e.via = "touch" => e.what = Tier(Abs(LoggedNote(e).time - last_time))

\* C6: no touch or key event matches a note whose time differs from the frame
\* time by more than 0.22, and the passive sweep turns a NotJudged note into a
\* Miss exactly when note.time < t - 0.22: no older NotJudged note survives a
\* manual update and no younger one is missed.
C6_BadWindow ==
    /\ \A e \in LogEntries :
         /\ e.via \in {"touch", "touchhold", "flick", "key", "keyhold"}
               => Abs(LoggedNote(e).time - last_time) <= LIMIT_BAD
         /\ e.via = "miss" => LoggedNote(e).time < last_time - LIMIT_BAD
    /\ ManualFrameDone =>
         \A n \in RealNotes :
            StatusOf(n).s = "NotJudged" => NoteOf(n).time >= last_time - LIMIT_BAD

\* one note has just been missed by the sweep while another, exactly 0.22 behind
\* the frame time, is still NotJudged
C6_Witness ==
    /\ \E e \in LogEntries : e.via = "miss"
    /\ \E n \in RealNotes :
         StatusOf(n).s = "NotJudged" /\ NoteOf(n).time = last_time - LIMIT_BAD

\* C7: score() is 1,000,000 when counts[0] = num_of_notes and otherwise
\* 1,000,000 * (0.9 * (counts[0] + 0.65 counts[1]) + 0.1 max_combo) / num_of_notes
\* rounded to the nearest integer, halves upward.  With v the numerator in
\* thousands, the score is 1000 (v div n) plus the rounding of 1000 (v mod n) / n.
C7_ScoreFormula ==
    result # NoResult =>
      IF counts[1] = num_of_notes THEN result.score = TOTAL
      ELSE LET n == num_of_notes
               v == 900 * counts[1] + 585 * counts[2] + 100 * max_combo
               r == result.score - 1000 * (v \div n)
           IN /\ 2 * (r * n - 1000 * (v % n)) <= n
              /\ 2 * (1000 * (v % n) - r * n) < n

C7_Witness ==
    /\ result # NoResult
    /\ num_of_notes = 3
    /\ counts = <<1, 1, 1, 0>>
    /\ max_combo = 2
    /\ result.score = 561667

\* C8 as stated: score() = 1,000,000 exactly when counts[0] = num_of_notes.
C8_MillionIffAllPerfect ==
    result # NoResult => (result.score = TOTAL <=> counts[1] = num_of_notes)

\* C8 as amended: for a chart of fewer than 630,000 notes, score() = 1,000,000
\* exactly when counts[0] = num_of_notes.
C8_MillionIffAllPerfectBelow ==
    (result # NoResult /\ num_of_notes < 630000)
       => (result.score = TOTAL <=> counts[1] = num_of_notes)

C8_Witness ==
    /\ result # NoResult
    /\ num_of_notes = 629999
    /\ counts = <<629998, 1, 0, 0>>
    /\ max_combo = num_of_notes
    /\ result.score = 999999

\* C9: for a chart with at least one non-fake note accuracy() is within [0, 1].
C9_AccuracyInRange ==
    num_of_notes > 0 =>
       /\ accuracy.defined
       /\ 0 <= accuracy.p
       /\ accuracy.p <= accuracy.q

C9_Witness ==
    /\ num_of_notes > 0
    /\ counts[2] > 0
    /\ counts[1] > 0
    /\ AllResolved

\* C10: a Judge of a chart without non-fake notes has num_of_notes = 0 and
\* score() = 1,000,000, and its accuracy() is a defined value, not the result of
\* a division by zero.
C10_EmptyChartGuarded ==
    RealNotes = {} =>
       /\ num_of_notes = 0
       /\ score = TOTAL
       /\ accuracy.defined

IdxSet(l) == {notes[l].idx[k] : k \in 1..Len(notes[l].idx)}
RealCount(l) == Cardinality({i \in NoteIds(l) : ~chart[l][i].fake})

\* C11: across every update call, manual or autoplay, each line's watermark does not
\* decrease, and it never exceeds the number of non-fake notes of the line.
C11_WatermarkMonotonic ==
    [][\A l \in Lines : /\ notes'[l].st >= notes[l].st
                        /\ notes[l].st <= RealCount(l)
                        /\ notes'[l].st <= RealCount(l)]_vars

\* a line of several notes whose watermark has reached the end of its list
C11_Witness ==
    \E l \in Lines : RealCount(l) >= 2 /\ notes[l].st = RealCount(l)

\* C12: after every update call the watermark of each line is the first ordered
\* position whose note is not Judged: every note below it is Judged and the note at
\* it, if there is one, is not.
C12_WatermarkFirstUnjudged ==
    \A l \in Lines :
       LET idx == notes[l].idx
           st == notes[l].st
       IN /\ \A k \in 1..Len(idx) : k <= st => judge[l][idx[k]].s = "Judged"
          /\ st < Len(idx) => judge[l][idx[st + 1]].s # "Judged"

\* the watermark stands between two notes, and a note behind it is already Judged
C12_Witness ==
    \E l \in Lines :
       LET idx == notes[l].idx
           st == notes[l].st
       IN /\ res_time > 0
          /\ st < Len(idx)
          /\ \E k \in 1..Len(idx) : k > st + 1 /\ judge[l][idx[k]].s = "Judged"

\* C13: a fake note is in no line's ordered index list, is not counted in
\* num_of_notes, keeps the status NotJudged and is never committed.
C13_FakeNeverJudged ==
    /\ \A n \in NoteRefs \ RealNotes :
         /\ n[2] \notin IdxSet(n[1])
         /\ StatusOf(n) = NotJudged
         /\ committed[n[1]][n[2]] = <<>>
    /\ num_of_notes = Cardinality(RealNotes)

\* a chart with a fake note among real ones has been played to the end, with a hit
C13_Witness ==
    /\ NoteRefs # RealNotes
    /\ Cardinality(RealNotes) >= 2
    /\ AllResolved
    /\ counts[1] + counts[2] >= 1
    /\ ManualFrameDone

\* the Handler after the key events of the frame
FrameKeys(in) ==
    HandleKeys([count |-> key_down_count, keys_down |-> 0, underflow |-> FALSE], in.keys)

\* C14: a manual frame is deterministic: from the same state, with the same frame
\* time, touches and events, update ends in the same statuses, counts, combo and
\* max_combo whatever the order the active touches are iterated in.
C14_FrameDeterministic ==
    ~panicked =>
      \A t \in NextTimes, in \in InputsOf(chart) :
         \A o1, o2 \in Orders(FrameTouchIds(in)),
            spd \in SpeedInputs(FrameTrackers(in), MovingTouches(in)) :
              LET a == FrameOutcome(t, in, FrameKeys(in), o1, spd)
                  b == FrameOutcome(t, in, FrameKeys(in), o2, spd)
              IN /\ a.J = b.J
                 /\ a.a.counts = b.a.counts
                 /\ a.a.combo = b.a.combo
                 /\ a.a.max_combo = b.a.max_combo

\* the touches of a frame as the matching loop sees them, c = [x, ok, click, flick, t]:
\* a touch in phase Started is a click, a tracked moving one a flick at some speed
TouchCases(t, in) ==
    LET m == Lifecycle([T |-> trackers, tm |-> in.tm], in.events)
    IN {[x |-> m.tm[id].x, ok |-> m.tm[id].ok, click |-> TRUE, flick |-> FALSE, t |-> t] :
          id \in {j \in DOMAIN m.tm : m.tm[j].phase = "Started"}}
       \cup
       {[x |-> m.tm[id].x, ok |-> m.tm[id].ok, click |-> FALSE, flick |-> TRUE, t |-> t] :
          id \in {j \in MovingTouches(in) :
                    \E spd \in Speeds : (m.T[j].len = 1 => spd = 0) /\ HasFlick(m.T[j], spd)}}

\* the notes that pass the skip rules and the adaptive time window for the touch c
Candidates(c) ==
    {n \in RealNotes :
       LET note == NoteOf(n)
           dist == Abs(note.x - c.x)
       IN /\ c.ok
          /\ \E k \in 1..Len(notes[n[1]].idx) : k > notes[n[1]].st /\ notes[n[1]].idx[k] = n[2]
          /\ StatusOf(n).s = "NotJudged"
          /\ note.kind # "Drag"
          /\ c.click \/ note.kind = "Flick"
          /\ c.flick \/ note.kind # "Flick" \/ note.time < c.t
          /\ note.time - c.t < LIMIT_BAD
          /\ ~OutsideBad(Abs(note.time - c.t), dist)
          /\ 10 * dist < XDiffMax10}

\* C15: the note selected for a click or flick touch is the laterally closest of the
\* notes, on any line, that pass the skip rules and the adaptive time window: no
\* such candidate is closer to the touch than the winner.
C15_ClosestWins ==
    ~panicked =>
      \A t \in NextTimes, in \in InputsOf(chart) : \A c \in TouchCases(t, in) :
         LET cl == Closest(judge, notes, c)
         IN cl.tgt # <<>> =>
              \A n \in Candidates(c) : 10 * Abs(NoteOf(n).x - c.x) >= cl.dist10

Judgements == {"Perfect", "Good", "Bad", "Miss"}

\* C16: commit of Perfect or Good adds 1 to combo and sets max_combo to the larger
\* of max_combo and combo; commit of Bad or Miss sets combo to 0 and leaves
\* max_combo; each commit adds 1 to exactly one entry of counts.  Hence
\* combo <= max_combo <= counts[0] + counts[1] in every reachable state.
C16_CommitCombo ==
    /\ \A what \in Judgements, diff \in {<<>>, <<-5>>} :
         LET b == Commit(Aggregate, what, diff)
         IN /\ what \in {"Perfect", "Good"} =>
                 /\ b.combo = combo + 1
                 /\ b.max_combo = Max(max_combo, b.combo)
            /\ what \in {"Bad", "Miss"} =>
                 /\ b.combo = 0
                 /\ b.max_combo = max_combo
            /\ \A k \in 1..4 :
                 b.counts[k] = counts[k] + (IF k = JudgementIndex(what) THEN 1 ELSE 0)
    /\ combo <= max_combo
    /\ max_combo <= counts[1] + counts[2]

\* a combo was broken and a new one started: max_combo is below the number of
\* Perfect and Good judgements
C16_Witness ==
    /\ counts[3] + counts[4] >= 1
    /\ combo >= 1
    /\ max_combo < counts[1] + counts[2]

\* C17: early + late of result() equals counts[1] + counts[2], the number of Good
\* and Bad commits: each of them records one time difference and Perfect and Miss
\* record none; early counts the negative differences and late the others.
C17_EarlyLate ==
    /\ Result.early + Result.late = counts[2] + counts[3]
    /\ Result.early = Cardinality({k \in 1..Len(diffs) : diffs[k] < 0})
    /\ Result.late = Cardinality({k \in 1..Len(diffs) : diffs[k] >= 0})

\* an early and a late judgement next to one that records no difference
C17_Witness ==
    /\ Result.early >= 1
    /\ Result.late >= 1
    /\ counts[1] + counts[4] >= 1
    /\ ManualFrameDone

\* the samples in the window all lie on the line of velocity v
ConstantVelocity(m, v) ==
    \A k \in 2..Len(m) : m[k].x - m[k - 1].x = v * (m[k].t - m[k - 1].t)

\* C18: after consume_flick, has_flick returns false for as long as the measured
\* speed stays above 2/3 of the threshold and the direction within the margin of
\* the consumed direction; it returns true again only on or after a call that
\* measured a speed at or below 2/3 of the threshold or a direction beyond the margin.
C18_FlickCooldown ==
    probe.op = "has_flick" /\ probe.cooling => ~probe.flick

\* a second flick at full speed in the consumed direction has just been suppressed
C18_Witness ==
    /\ probe.op = "has_flick"
    /\ probe.cooling
    /\ Abs(probe.spd) >= FlickThreshold
    /\ ~probe.flick

\* C19: on a tracker that is not waiting and holds samples of a touch of constant
\* velocity, has_flick returns false when the speed is below the threshold and true
\* when it is 2.0 * dpi / 275, whatever the number of samples.
C19_ConstantVelocityFlick ==
    probe.op = "has_flick" /\ ~probe.waited /\ Len(tracker.movements) >= 2 =>
      /\ \A v \in Velocities :
           ConstantVelocity(tracker.movements, v) /\ Abs(v) < FlickThreshold => ~probe.flick
      /\ \A v \in {FastSpeed, -FastSpeed} :
           ConstantVelocity(tracker.movements, v) => probe.flick

\* C20: after k pushes since creation or reset the tracker holds the last
\* min(k, 10) pushed samples, in push order.
C20_PushWindow ==
    LET k == Len(pushed)
        n == IF k < RECORD_MAX THEN k ELSE RECORD_MAX
    IN /\ Len(tracker.movements) = n
       /\ tracker.movements = SubSeq(pushed, k - n + 1, k)

\* a push on a full window has evicted the oldest sample
C20_Witness ==
    /\ probe.op = "push"
    /\ Len(pushed) > RECORD_MAX

\* C21: after any sequence of manual updates a tracker exists for touch id i exactly
\* when the latest Started, Ended or Cancelled event of i was Started; a Moved event
\* for an id without a tracker creates none and changes no tracker; a Started event
\* leaves a tracker of exactly one sample for its id.
C21_TrackerLifetime ==
    /\ DOMAIN trackers = {i \in DOMAIN last_phase : last_phase[i] = "Started"}
    /\ \A i \in 1..2 :
         LET after(phase) ==
               Lifecycle([T |-> trackers, tm |-> NoTouch], <<TouchEvent(i, phase, 0)>>).T
         IN /\ i \notin DOMAIN trackers => after("Moved") = trackers
            /\ DOMAIN after("Started") = DOMAIN trackers \cup {i}
            /\ after("Started")[i].len = 1

\* the latest lifecycle event of touch 1 is its end, and no tracker is left
C21_Witness ==
    /\ 1 \in DOMAIN last_phase
    /\ last_phase[1] \in {"Ended", "Cancelled"}
    /\ trackers = <<>>
    /\ ManualFrameDone

\* C22: when n >= 1 events are drained in a manual update at frame time t, the k-th
\* is stamped last_time + k (t - last_time) / (n + 1): the stamps are equally spaced,
\* in arrival order, strictly increasing and strictly between last_time and t when
\* t > last_time; after the update last_time is t.
C22_EventStamps ==
    LET n == Len(stamps.at)
        d == stamps.to - stamps.from
    IN n >= 1 =>
         /\ \A k \in 1..n :
              /\ stamps.at[k].den = n + 1
              /\ stamps.at[k].num = stamps.from * (n + 1) + k * d
              /\ d > 0 => /\ stamps.from * (n + 1) < stamps.at[k].num
                          /\ stamps.at[k].num < stamps.to * (n + 1)
         /\ \A k \in 1..(n - 1) :
              /\ stamps.at[k + 1].num - stamps.at[k].num = stamps.at[1].num - stamps.from * (n + 1)
              /\ d > 0 => stamps.at[k].num < stamps.at[k + 1].num
         /\ last_time = stamps.to

\* three events were drained in a frame that is not the first
C22_Witness ==
    /\ Len(stamps.at) = 3
    /\ stamps.from > 0
    /\ stamps.to > stamps.from

\* C23: for every Perfect judgement committed in autoplay, the particles and the
\* hit sound emitted at the commit are those the manual path emits when it commits
\* Perfect for a note of the same kind, Hold notes included.
C23_AutoplayEffects ==
    \A e \in LogEntries :
       e.via = "auto" =>
         AutoEffects(LoggedNote(e).kind) = ManualEffects(LoggedNote(e).kind, "Perfect")

\* C24: a non-repeat key press in a manual update at frame time t changes at most one
\* note, the earliest by time of the NotJudged Click and Hold notes of all lines,
\* wherever it lies.  A Click is committed Perfect, Good or Bad for |t - note.time| up
\* to 0.08, 0.18 and 0.22 and left alone beyond; a Hold enters the Hold state exactly
\* when |t - note.time| <= 0.18; when the earliest note is outside its window the key
\* press changes no note.
C24_KeyPress ==
    /\ \A e \in LogEntries :
         LET dt == Abs(last_time - LoggedNote(e).time)
         IN /\ e.via = "key" =>
                 /\ LoggedNote(e).kind = "Click"
                 /\ dt <= LIMIT_BAD
                 /\ e.what = "Perfect" <=> dt <= LIMIT_PERFECT
                 /\ e.what = "Bad" <=> dt > LIMIT_GOOD
            /\ e.via = "keyhold" => LoggedNote(e).kind = "Hold" /\ dt <= LIMIT_GOOD
    /\ ~panicked =>
         \A t \in NextTimes :
            LET w == KeyLoop([J |-> judge, T |-> trackers, js |-> <<>>, lg |-> <<>>], notes, 1, t)
                open == {n \in RealNotes : /\ StatusOf(n).s = "NotJudged"
                                           /\ NoteOf(n).kind \in {"Click", "Hold"}}
                first == {n \in open : \A m \in open : NoteOf(n).time <= NoteOf(m).time}
                changed == {n \in NoteRefs : w.J[n[1]][n[2]] # StatusOf(n)}
                outcome(n) ==
                  LET dt == Abs(t - NoteOf(n).time)
                      what == IF dt <= LIMIT_PERFECT THEN "Perfect"
                              ELSE IF dt <= LIMIT_GOOD THEN "Good" ELSE "Bad"
                  IN IF NoteOf(n).kind = "Click"
                     THEN IF dt <= LIMIT_BAD
                          THEN /\ changed = {n}
                               /\ w.J[n[1]][n[2]] = Judged
                               /\ w.js = << <<what, n[1], n[2], <<>>>> >>
                          ELSE changed = {} /\ w.js = <<>>
                     ELSE IF dt <= LIMIT_GOOD
                          THEN /\ changed = {n}
                               /\ w.J[n[1]][n[2]].s = "Hold"
                               /\ w.js = <<>>
                          ELSE changed = {} /\ w.js = <<>>
            IN IF open = {} THEN changed = {} /\ w.js = <<>>
               ELSE \E n \in first : outcome(n)

\* a key press has just committed Bad on a Click note more than 0.18 away
C24_Witness ==
    /\ ManualFrameDone
    /\ \E e \in LogEntries :
         /\ e.via = "key"
         /\ e.what = "Bad"
         /\ Abs(last_time - LoggedNote(e).time) > LIMIT_GOOD

\* C25: the first contact on a Hold note is handled alike by touch and by key: for a
\* NotJudged Hold note and a frame time t, a tap matched to the note and a key press
\* aimed at it both put it into the Hold state or both leave it NotJudged, with the same
\* payload (perfect = |t - note.time| <= 0.08, hit time t, diff t - note.time, pre-release
\* false) and without a commit.
C25_HoldEntryAlike ==
    ~panicked =>
      \A t \in NextTimes, n \in RealNotes :
         LET w0 == [J |-> judge, T |-> trackers, js |-> <<>>, lg |-> <<>>]
             tap == Touch(1, "Started", NoteOf(n).x, TRUE)
             c == [x |-> tap.x, ok |-> TRUE, click |-> TRUE, flick |-> FALSE, t |-> t]
             byTouch == TouchStep(w0, notes, tap, 0, t)
             byKey == KeyLoop(w0, notes, 1, t)
         IN /\ NoteOf(n).kind = "Hold"
            /\ StatusOf(n).s = "NotJudged"
            /\ Closest(judge, notes, c).tgt = n
            /\ EarliestKeyNote(judge, notes, 1, <<>>) = n
            => /\ byTouch.J[n[1]][n[2]] = byKey.J[n[1]][n[2]]
               /\ byTouch.js = <<>>
               /\ byKey.js = <<>>
               /\ byKey.J[n[1]][n[2]].s = "Hold" =>
                    byKey.J[n[1]][n[2]] =
                      HoldStatus(Abs(t - NoteOf(n).time) <= LIMIT_PERFECT, t,
                                 t - NoteOf(n).time, FALSE)

\* C26: for a note in the Hold state in a manual update at time t: if
\* t + 0.22 >= end_time its pre-release flag is set and it is not missed in that update
\* nor in a later one; otherwise it becomes Judged with a Miss commit exactly when no
\* key is held (key_down_count = 0) and no touch position lies within 1.9 note widths
\* of the note's lateral position, and stays as it is when one does.
C26_HoldSweep ==
    /\ \A n \in RealNotes :
         StatusOf(n).s = "Hold" /\ StatusOf(n).pre => res_time + LIMIT_BAD >= NoteOf(n).end_time
    /\ \A e \in LogEntries : e.via = "holdmiss" => key_down_count = 0
    /\ ~panicked =>
         \A n \in {r \in RealNotes : StatusOf(r).s = "Hold"} :
         \A t \in NextTimes, in \in InputsOf(chart) :
         \A order \in Orders(FrameTouchIds(in)),
            spd \in SpeedInputs(FrameTrackers(in), MovingTouches(in)) :
              LET h == FrameKeys(in)
                  o == FrameOutcome(t, in, h, order, spd)
                  tm == Lifecycle([T |-> trackers, tm |-> in.tm], in.events).tm
                  near == \E id \in DOMAIN tm :
                             tm[id].ok /\ 10 * Abs(tm[id].x - NoteOf(n).x) <= 19 * NoteWidth
                  missed == \E k \in 1..Len(o.js) : o.js[k] = <<"Miss", n[1], n[2], <<>>>>
                  after == o.J[n[1]][n[2]]
              IN Abs(h.count) <= MaxKeys =>
                   IF t + LIMIT_BAD >= NoteOf(n).end_time
                   THEN /\ ~missed
                        /\ after.s = "Hold" => after = [StatusOf(n) EXCEPT !.pre = TRUE]
                   ELSE /\ missed <=> (h.count = 0 /\ ~near)
                        /\ missed => after = Judged
                        /\ ~missed => after = StatusOf(n)

\* a Hold in progress was released more than 0.22 before its end and has just been missed
C26_Witness ==
    /\ ManualFrameDone
    /\ \E e \in LogEntries : e.via = "holdmiss" /\ LoggedNote(e).end_time > last_time + LIMIT_BAD

\* C27: in the manual path a Hold note whose pre-release flag is set is committed in
\* the first update with end_time <= t, Perfect when its stored perfect flag is true
\* and Good otherwise, with the stored time difference; a PreJudge note is committed
\* Perfect in the first update with t >= note.time, never while t < note.time, and
\* never as Miss.
C27_DeferredCommit ==
    /\ \A e \in LogEntries :
         /\ e.via = "holdend" => e.what \in {"Perfect", "Good"} /\ LoggedNote(e).end_time <= last_time
         /\ e.via = "prejudge" => e.what = "Perfect" /\ LoggedNote(e).time <= last_time
    /\ ~panicked =>
         \A n \in {r \in RealNotes : StatusOf(r).s \in {"Hold", "PreJudge"}} :
         \A t \in NextTimes, in \in InputsOf(chart) :
         \A order \in Orders(FrameTouchIds(in)),
            spd \in SpeedInputs(FrameTrackers(in), MovingTouches(in)) :
              LET h == FrameKeys(in)
                  o == FrameOutcome(t, in, h, order, spd)
                  s == StatusOf(n)
                  mine == {k \in 1..Len(o.js) : o.js[k][2] = n[1] /\ o.js[k][3] = n[2]}
                  after == o.J[n[1]][n[2]]
              IN Abs(h.count) <= MaxKeys =>
                   /\ s.s = "Hold" /\ (s.pre \/ NoteOf(n).end_time <= t) =>
                        IF NoteOf(n).end_time <= t
                        THEN /\ after = Judged
                             /\ \E k \in mine :
                                  /\ mine = {k}
                                  /\ o.js[k] = <<IF s.perfect THEN "Perfect" ELSE "Good",
                                                  n[1], n[2], <<s.diff>> >>
                                  /\ Len(o.js) = 1 /\ ~s.perfect => o.a.diffs = Append(diffs, s.diff)
                        ELSE mine = {} /\ after = s
                   /\ s.s = "PreJudge" =>
                        IF t >= NoteOf(n).time
                        THEN /\ after = Judged
                             /\ \E k \in mine :
                                  mine = {k} /\ o.js[k] = <<"Perfect", n[1], n[2], <<>> >>
                        ELSE mine = {} /\ after = s

\* a Hold entered outside the Perfect window has just been committed Good at its end
C27_Witness ==
    /\ ManualFrameDone
    /\ \E e \in LogEntries :
         e.via = "holdend" /\ e.what = "Good" /\ LoggedNote(e).end_time = last_time

\* C28: in autoplay a note that is not a Hold is committed Perfect in the first update
\* with t >= note.time and never while t < note.time; a Hold note enters
\* Hold(perfect = true) in the first update with t >= note.time and is committed
\* Perfect in the first update with t >= end_time, never before its end_time.
C28_AutoplayTiming ==
    ~panicked =>
      \A t \in NextTimes, n \in RealNotes :
         LET w == AutoLines([J |-> judge, N |-> notes, js |-> <<>>, lg |-> <<>>], 1, t)
             note == NoteOf(n)
             commits == Cardinality({k \in 1..Len(w.js) : w.js[k] = n})
             after == w.J[n[1]][n[2]]
         IN /\ note.kind # "Hold" /\ StatusOf(n).s = "NotJudged" =>
                 IF t >= note.time THEN after = Judged /\ commits = 1
                 ELSE after = NotJudged /\ commits = 0
            /\ note.kind = "Hold" /\ StatusOf(n).s \in {"NotJudged", "Hold"} =>
                 IF t >= note.end_time THEN after = Judged /\ commits = 1
                 ELSE /\ commits = 0
                      /\ after = IF StatusOf(n).s = "Hold" THEN StatusOf(n)
                                 ELSE IF t >= note.time
                                      THEN HoldStatus(TRUE, t, t - note.time, FALSE)
                                      ELSE NotJudged

\* C29: the passive sweep moves a NotJudged Drag note inside the +-0.22 window to
\* PreJudge only if some touch is within 1.9 note widths of it and within the adaptive
\* time tolerance 0.22 - 0.08 max(dx - 0.9, 0); it catches a NotJudged Flick note only
\* while a key is held and under the same condition on the touches; it never catches
\* a Click or Hold note.
C29_AutoCatch ==
    ~panicked =>
      \A t \in NextTimes, in \in InputsOf(chart) :
      \A order \in Orders(FrameTouchIds(in)),
         spd \in SpeedInputs(FrameTrackers(in), MovingTouches(in)) :
           LET h == FrameKeys(in)
               o == FrameOutcome(t, in, h, order, spd)
               tm == Lifecycle([T |-> trackers, tm |-> in.tm], in.events).tm
               near(note) ==
                 \E id \in DOMAIN tm :
                    LET dx == Abs(tm[id].x - note.x)
                    IN /\ tm[id].ok
                       /\ 10 * dx <= 19 * NoteWidth
                       /\ 10 * Abs(t - note.time) <= 10 * LIMIT_BAD - LIMIT_PERFECT * Max(dx - 9, 0)
           IN Abs(h.count) <= MaxKeys =>
                \A k \in 1..Len(o.lg) :
                   o.lg[k].via = "catch" =>
                     LET note == LoggedNote(o.lg[k])
                     IN /\ note.kind \in {"Drag", "Flick"}
                        /\ Abs(t - note.time) <= LIMIT_BAD
                        /\ near(note)
                        /\ note.kind = "Flick" => h.count # 0

\* C30: a flick gesture (a Moved or Stationary touch whose tracker reports has_flick)
\* never changes the status of a Click, Hold or Drag note nor of a note that is not
\* NotJudged; when it matches a NotJudged Flick note, that note becomes PreJudge and
\* the tracker of the touch enters its cooldown; when it matches none, no status
\* changes and the tracker does not enter the cooldown.
C30_FlickGesture ==
    /\ \A e \in LogEntries : e.via = "flick" => LoggedNote(e).kind = "Flick"
    /\ ~panicked =>
         \A t \in NextTimes, in \in InputsOf(chart) :
            LET m == Lifecycle([T |-> trackers, tm |-> in.tm], in.events)
            IN \A id \in MovingTouches(in), spd \in Speeds :
                 (m.T[id].len = 1 => spd = 0) /\ HasFlick(m.T[id], spd) =>
                   LET w == TouchStep([J |-> judge, T |-> m.T, js |-> <<>>, lg |-> <<>>],
                                      notes, m.tm[id], spd, t)
                       changed == {n \in NoteRefs : w.J[n[1]][n[2]] # StatusOf(n)}
                   IN /\ w.js = <<>>
                      /\ \A n \in changed :
                           /\ changed = {n}
                           /\ NoteOf(n).kind = "Flick"
                           /\ StatusOf(n) = NotJudged
                           /\ w.J[n[1]][n[2]] = PreJudge
                      /\ w.T[id].wait <=> changed # {}
                      /\ \A j \in DOMAIN m.T \ {id} : w.T[j] = m.T[j]

\* a flick has just caught a Flick note and left its tracker in the cooldown
C30_Witness ==
    /\ ManualFrameDone
    /\ \E e \in LogEntries : e.via = "flick"
    /\ \E id \in DOMAIN trackers : trackers[id].wait

\* C31: for every line the ordered index list built by Judge::new holds each
\* non-fake note index of the line exactly once and no other, ascending by note time,
\* notes of equal time in chart order; every watermark, combo, max_combo and the
\* counts are 0 after construction.
C31_NewOrder ==
    /\ \A l \in Lines :
         LET idx == notes[l].idx
         IN /\ {idx[k] : k \in 1..Len(idx)} = {i \in NoteIds(l) : ~chart[l][i].fake}
            /\ \A j, k \in 1..Len(idx) :
                 j < k => /\ idx[j] # idx[k]
                          /\ chart[l][idx[j]].time <= chart[l][idx[k]].time
                          /\ chart[l][idx[j]].time = chart[l][idx[k]].time => idx[j] < idx[k]
    /\ res_time = 0 =>
         /\ \A l \in Lines : notes[l].st = 0
         /\ combo = 0 /\ max_combo = 0 /\ counts = <<0, 0, 0, 0>>

\* a Judge just built for a chart with a fake note, two notes of equal time on a line
\* and a line whose notes are not in time order
C31_Witness ==
    /\ res_time = 0
    /\ \E l \in Lines : \E i \in NoteIds(l) : chart[l][i].fake
    /\ \E l \in Lines : \E j, k \in 1..Len(notes[l].idx) :
         /\ j < k
         /\ chart[l][notes[l].idx[j]].time = chart[l][notes[l].idx[k]].time
    /\ \E l \in Lines : \E j, k \in 1..Len(notes[l].idx) :
         j < k /\ notes[l].idx[j] > notes[l].idx[k]

\* C32: after any sequence of manual and autoplay updates, Bad has been committed
\* for Click notes only, Drag and Flick notes have been committed as Perfect or Miss
\* only, and Hold notes as Perfect, Good or Miss only.
C32_JudgementsByKind ==
    \A n \in NoteRefs : \A k \in 1..Len(committed[n[1]][n[2]]) :
       LET what == committed[n[1]][n[2]][k]
           kind == NoteOf(n).kind
       IN /\ what = "Bad" => kind = "Click"
          /\ kind \in {"Drag", "Flick"} => what \in {"Perfect", "Miss"}
          /\ kind = "Hold" => what \in {"Perfect", "Good", "Miss"}

\* a Hold note tapped more than 0.18 from its time has been committed Good and a
\* Drag note Perfect
C32_Witness ==
    /\ \E n \in RealNotes :
         /\ NoteOf(n).kind = "Hold"
         /\ committed[n[1]][n[2]] = <<"Good">>
         /\ \E k \in 1..Len(diffs) : Abs(diffs[k]) > LIMIT_GOOD
    /\ \E n \in RealNotes : NoteOf(n).kind = "Drag" /\ committed[n[1]][n[2]] = <<"Perfect">>

\* C33: key_down_count never underflows: whatever key-down and key-up events reach
\* the handler, a key-up without a counted key-down included, the unsigned counter
\* is not taken below zero (the subtraction neither aborts nor wraps around).
C33_KeyCountNoUnderflow ==
    /\ ~panicked
    /\ key_down_count >= 0

\* C34: a tap (a touch in phase Started) whose winning candidate is a Flick note,
\* which requires the time of that note to lie before t, produces no judgement: no
\* note changes status, nothing is committed, and the tap is matched to no other note.
C34_TapOnFlick ==
    ~panicked =>
      \A t \in NextTimes, in \in InputsOf(chart) :
         LET m == Lifecycle([T |-> trackers, tm |-> in.tm], in.events)
         IN \A id \in {j \in DOMAIN m.tm : m.tm[j].phase = "Started"} :
              LET c == [x |-> m.tm[id].x, ok |-> m.tm[id].ok, click |-> TRUE,
                        flick |-> FALSE, t |-> t]
                  cl == Closest(judge, notes, c)
                  w == TouchStep([J |-> judge, T |-> m.T, js |-> <<>>, lg |-> <<>>],
                                 notes, m.tm[id], 0, t)
              IN cl.tgt # <<>> /\ NoteOf(cl.tgt).kind = "Flick" =>
                   /\ NoteOf(cl.tgt).time < t
                   /\ w.J = judge
                   /\ w.js = <<>>
                   /\ w.lg = <<>>
                   /\ w.T = m.T

\* a frame whose one event was the start of touch 1 at x = 0 has ended without any
\* status change, with a NotJudged Flick note at x = 0 inside the window behind t
C34_Witness ==
    /\ ManualFrameDone
    /\ stamps.to = last_time
    /\ Len(stamps.at) = 1
    /\ 1 \in DOMAIN trackers
    /\ trackers[1].len = 1
    /\ log = <<>>
    /\ \E n \in RealNotes :
         /\ NoteOf(n).kind = "Flick"
         /\ NoteOf(n).x = 0
         /\ StatusOf(n) = NotJudged
         /\ NoteOf(n).time < last_time
         /\ NoteOf(n).time >= last_time - LIMIT_BAD

\* C35: reset() returns the Judge to the state new() produces for the chart: every
\* watermark is 0, trackers and diffs are empty, combo, max_combo and counts are 0,
\* last_time is 0 and key_down_count is 0, with num_of_notes and the ordered index
\* lists as new() built them.
C35_ResetAsNew ==
    log = <<Ev("reset", 0, 0, "None")>> =>
      /\ notes = NewNotes(chart)
      /\ trackers = <<>>
      /\ diffs = <<>>
      /\ combo = 0 /\ max_combo = 0 /\ counts = <<0, 0, 0, 0>>
      /\ num_of_notes = CountNotes(chart, Len(chart))
      /\ last_time = 0
      /\ key_down_count = 0

\* C36: within one manual update the judgements are committed in non-decreasing
\* order of the times of the judged notes: a judgement of an earlier note, a Miss in
\* particular, is never committed after that of a later note.
C36_CommitInTimeOrder ==
    ManualFrameDone =>
      \A j, k \in 1..Len(log) :
         j < k /\ log[j].what # "None" /\ log[k].what # "None" =>
           LoggedNote(log[j]).time <= LoggedNote(log[k]).time

====
